---- MODULE Spec2Model ----
(***************************************************************************)
(* Model of the real-estate chat front end:                                *)
(*   - the Conversation Controller (Page: sendMessage, clearChat, the      *)
(*     input handlers and the network callbacks of an in-flight request),  *)
(*   - the Proxy Handler (POST of /api/chat),                              *)
(*   - the rendering decision (ChatMessage, isVegaSpec, formatText).       *)
(* Text is a sequence of one-character strings.  Timestamps and styling    *)
(* are left out: no handler reads them.                                    *)
(***************************************************************************)
EXTENDS Integers, Sequences, FiniteSets, TLC

VARIABLES
    messages,         \* useState<Message[]>          (Page)
    input,            \* useState("")                 (Page, the textarea)
    isLoading,        \* useState(false)              (Page)
    showWelcome,      \* useState(true)               (Page)
    renderedLoading,  \* isLoading as captured by the sendMessage closure of the last render
    abortRef,         \* abortRef.current: 0 = null, else the controller of invocation k
    calls,            \* the sendMessage invocations: k -> [pc, replies]
    requests,         \* every fetch the controller issued, in order
    nextUuid,         \* number of crypto.randomUUID() results handed out
    event,            \* the handler or callback that ran last
    px,               \* one invocation of the proxy's POST handler
    view,             \* one rendering of a ChatMessage
    chart             \* one VegaChart component and the effects it has run

vars == << messages, input, isLoading, showWelcome, renderedLoading, abortRef,
           calls, requests, nextUuid, event, px, view, chart >>

ctlVars == << messages, input, isLoading, showWelcome, renderedLoading, abortRef,
              calls, requests, nextUuid, event >>

(***************************************************************************)
(* Bounds                                                                  *)
(***************************************************************************)
\* accepted sends explored per behaviour
MaxSends == 3
\* length of the free part of a rendered text
MaxLen == 4

(***************************************************************************)
(* Text helpers                                                            *)
(***************************************************************************)
IsSpace(c) == c \in {" ", "\n", "\t"}

RECURSIVE TrimStart(_)
TrimStart(s) ==
    IF s = <<>> THEN <<>>
    ELSE IF IsSpace(Head(s)) THEN TrimStart(Tail(s)) ELSE s

RECURSIVE TrimEnd(_)
TrimEnd(s) ==
    IF s = <<>> THEN <<>>
    ELSE IF IsSpace(s[Len(s)]) THEN TrimEnd(SubSeq(s, 1, Len(s) - 1)) ELSE s

\* String.prototype.trim
Trim(s) == TrimEnd(TrimStart(s))

(***************************************************************************)
(* Message contents: string | Record<string, unknown>, and whatever other  *)
(* JSON value data.response holds at run time.                             *)
(***************************************************************************)
StringContent(s) == [type |-> "string", chars |-> s, keys |-> {}]

ObjectContent(ks) == [type |-> "object", chars |-> <<>>, keys |-> ks]

\* t is one of "undefined", "null", "number", "boolean", "array"
OtherContent(t) == [type |-> t, chars |-> <<>>, keys |-> {}]

LiteralId(s) == [kind |-> "literal", name |-> s, n |-> 0]

\* mutant: the generator hands out the same identifier again
RandomUUID_Repeats(k) == [kind |-> "uuid", name |-> "", n |-> 1]

\* the k-th result of crypto.randomUUID(): results are taken to be pairwise distinct
RandomUUID(k) == [kind |-> "uuid", name |-> "", n |-> k]

\* the controller's endpoint constant, and the route the proxy is mounted on
AGENT_URL == "http://127.0.0.1:8001/chat"

PROXY_ROUTE == "/api/chat"

\* the welcome text, shortened: a bold span, a blank line, a closing sentence
WELCOME ==
    [id      |-> LiteralId("welcome"),
     role    |-> "agent",
     content |-> StringContent(<< "H", "i", " ", "*", "*", "A", "I", "*", "*", "\n", "\n", "T", "r", "y" >>)]

\* the text of the synthesized error message, shortened after its prefix
ErrorText == << "E", "r", "r", "o", "r", ":", " ", "C", "o", "u", "l", "d" >>

UserMsg(id, trimmed) == [id |-> id, role |-> "user", content |-> StringContent(trimmed)]

AgentMsg(id, raw) == [id |-> id, role |-> "agent", content |-> raw]

ErrorMsg(id) == [id |-> id, role |-> "agent", content |-> StringContent(ErrorText)]

(***************************************************************************)
(* Inputs of the controller                                                *)
(***************************************************************************)
\* what the user may type into the textarea
InputTexts == { <<>>, << " " >>, << "h", "i" >>, << " ", "h", "i", "\n" >> }

\* the query a suggestion chip passes to onSelect
Suggestions == { << "q" >> }

\* HTTP statuses the agent endpoint may answer with
Statuses == { 200, 404, 500 }

ResOk(status) == status >= 200 /\ status <= 299

\* what res.json() may resolve to: kind "object" carries data.response,
\* kind "other" is a JSON value without that property, kind "null" is null
AgentContents ==
    { StringContent(<< "o", "k" >>),
      ObjectContent({"mark"}),
      ObjectContent({"data"}),
      OtherContent("undefined") }

AgentData ==
    { [kind |-> "object", response |-> c] : c \in AgentContents }
        \cup { [kind |-> "other", response |-> OtherContent("undefined")],
               [kind |-> "null", response |-> OtherContent("undefined")] }

Pending(k) == k \in 1..Len(calls) /\ calls[k].pc \in {"fetch", "json"}

InFlight == { k \in 1..Len(calls) : Pending(k) }

(***************************************************************************)
(* Conversation Controller                                                 *)
(***************************************************************************)
Ev(name, accepted) == [name |-> name, accepted |-> accepted, k |-> 0]

EvCall(name, k) == [name |-> name, accepted |-> TRUE, k |-> k]

\* mutant: the guard forgets the loading flag
Accepts_NoLoadingCheck(text) == Trim(text) # <<>>

\* the guard of sendMessage: `if (!trimmed || isLoading) return`, isLoading
\* being the value the closure captured at the last render
Accepts(text) == Trim(text) # <<>> /\ ~renderedLoading

\* the request sendMessage issues: fetch(AGENT_URL, {method, headers, body, signal})
ChatRequest(trimmed, k) ==
    [url |-> AGENT_URL, method |-> "POST", message |-> trimmed, signal |-> k]

\* sendMessage(text) up to its first await.  The state updates of a user event
\* are rendered before the next event is handled, so the closure of the next
\* render sees isLoading = true.
SendMessage(text, name) ==
    IF ~Accepts(text)
    THEN /\ event' = Ev(name, FALSE)
         /\ UNCHANGED << messages, input, isLoading, showWelcome, renderedLoading,
                         abortRef, calls, requests, nextUuid >>
    ELSE LET k == Len(calls) + 1 IN
         /\ Len(calls) < MaxSends
         /\ showWelcome' = FALSE
         /\ input' = <<>>
         /\ messages' = Append(messages, UserMsg(RandomUUID(nextUuid + 1), Trim(text)))
         /\ nextUuid' = nextUuid + 1
         /\ isLoading' = TRUE
         /\ renderedLoading' = TRUE
         /\ abortRef' = k
         /\ calls' = Append(calls, [pc |-> "fetch", replies |-> 0])
         /\ requests' = Append(requests, ChatRequest(Trim(text), k))
         /\ event' = EvCall(name, k)

\* handleInputChange
InputChange(v) ==
    /\ input' = v
    /\ event' = Ev("input", TRUE)
    /\ UNCHANGED << messages, isLoading, showWelcome, renderedLoading, abortRef,
                    calls, requests, nextUuid >>

\* handleKeyDown with Enter and no Shift
KeyDownEnter == SendMessage(input, "keydown")

\* the send button: disabled={!input.trim() || isLoading}
SendClick ==
    /\ ~(Trim(input) = <<>> \/ renderedLoading)
    /\ SendMessage(input, "click")

\* a suggestion chip, rendered when showWelcome && !isLoading
SuggestionSelect(q) ==
    /\ showWelcome /\ ~renderedLoading
    /\ SendMessage(q, "suggestion")

\* mutant: the reset only restores the welcome flag
ClearChat_KeepsHistory ==
    /\ messages' = messages
    /\ showWelcome' = TRUE
    /\ event' = Ev("clear", TRUE)
    /\ UNCHANGED << input, isLoading, renderedLoading, abortRef, calls, requests,
                    nextUuid >>

\* clearChat
ClearChat ==
    /\ messages' = << WELCOME >>
    /\ showWelcome' = TRUE
    /\ event' = Ev("clear", TRUE)
    /\ UNCHANGED << input, isLoading, renderedLoading, abortRef, calls, requests,
                    nextUuid >>

\* mutant: the catch branch swallows every error
CatchError_Silent(k, name) ==
    /\ isLoading' = FALSE
    /\ calls' = [calls EXCEPT ![k] = [pc |-> "done", replies |-> @.replies]]
    /\ event' = EvCall(name, k)
    /\ UNCHANGED << messages, nextUuid, input, showWelcome, renderedLoading, abortRef,
                    requests >>

\* the catch branch for an error other than AbortError, then finally
CatchError(k, name) ==
    /\ messages' = Append(messages, ErrorMsg(RandomUUID(nextUuid + 1)))
    /\ nextUuid' = nextUuid + 1
    /\ isLoading' = FALSE
    /\ calls' = [calls EXCEPT ![k] = [pc |-> "done", replies |-> @.replies + 1]]
    /\ event' = EvCall(name, k)
    /\ UNCHANGED << input, showWelcome, renderedLoading, abortRef, requests >>

\* `await fetch(...)` resolves with a response of the given status
FetchResolve(k, status) ==
    /\ Pending(k) /\ calls[k].pc = "fetch"
    /\ IF ResOk(status)
       THEN /\ calls' = [calls EXCEPT ![k].pc = "json"]
            /\ event' = EvCall("response", k)
            /\ UNCHANGED << messages, input, isLoading, showWelcome, renderedLoading,
                            abortRef, requests, nextUuid >>
       ELSE CatchError(k, "serverError")

\* `await fetch(...)` rejects: the endpoint is unreachable
FetchReject(k) ==
    /\ Pending(k) /\ calls[k].pc = "fetch"
    /\ CatchError(k, "networkError")

\* `await res.json()` resolves with data; data.response of null throws
JsonResolve(k, data) ==
    /\ Pending(k) /\ calls[k].pc = "json"
    /\ IF data.kind = "null"
       THEN CatchError(k, "typeError")
       ELSE /\ messages' = Append(messages, AgentMsg(RandomUUID(nextUuid + 1), data.response))
            /\ nextUuid' = nextUuid + 1
            /\ isLoading' = FALSE
            /\ calls' = [calls EXCEPT ![k] = [pc |-> "done", replies |-> @.replies + 1]]
            /\ event' = EvCall("data", k)
            /\ UNCHANGED << input, showWelcome, renderedLoading, abortRef, requests >>

\* `await res.json()` rejects: the body is not JSON
JsonReject(k) ==
    /\ Pending(k) /\ calls[k].pc = "json"
    /\ CatchError(k, "parseError")

\* mutant: the catch branch does not tell AbortError from other errors
Abort_AppendsError ==
    /\ abortRef # 0 /\ calls[abortRef].pc \in {"fetch", "json"}
    /\ calls' = [calls EXCEPT ![abortRef] = [pc |-> "aborted", replies |-> @.replies + 1]]
    /\ messages' = Append(messages, [id |-> RandomUUID(nextUuid + 1), role |-> "agent",
                                      content |-> StringContent(<< "E", "r", "r", "o", "r", ":", " ", "C", "o", "u", "l", "d" >>)])
    /\ nextUuid' = nextUuid + 1
    /\ isLoading' = FALSE
    /\ event' = EvCall("abort", abortRef)
    /\ UNCHANGED << input, showWelcome, renderedLoading, abortRef, requests >>

\* the signal of abortRef.current is aborted: the pending await rejects with
\* AbortError, the catch branch returns, finally clears isLoading
Abort ==
    /\ abortRef # 0 /\ Pending(abortRef)
    /\ calls' = [calls EXCEPT ![abortRef].pc = "aborted"]
    /\ isLoading' = FALSE
    /\ event' = EvCall("abort", abortRef)
    /\ UNCHANGED << messages, input, showWelcome, renderedLoading, abortRef,
                    requests, nextUuid >>

\* React renders the state set by a network callback: a new sendMessage
\* closure captures the current isLoading
Render ==
    /\ renderedLoading # isLoading
    /\ renderedLoading' = isLoading
    /\ event' = Ev("render", TRUE)
    /\ UNCHANGED << messages, input, isLoading, showWelcome, abortRef, calls,
                    requests, nextUuid >>

Init ==
    /\ messages = << WELCOME >>
    /\ input = <<>>
    /\ isLoading = FALSE
    /\ showWelcome = TRUE
    /\ renderedLoading = FALSE
    /\ abortRef = 0
    /\ calls = <<>>
    /\ requests = <<>>
    /\ nextUuid = 0
    /\ event = Ev("init", TRUE)
    /\ px = [pc |-> "off"]
    /\ chart = [pc |-> "off"]
    /\ view = [pc |-> "off"]

Next ==
    \/ (\E v \in InputTexts : InputChange(v)) /\ UNCHANGED << px, view, chart >>
    \/ KeyDownEnter /\ UNCHANGED << px, view, chart >>
    \/ SendClick /\ UNCHANGED << px, view, chart >>
    \/ (\E q \in Suggestions : SuggestionSelect(q)) /\ UNCHANGED << px, view, chart >>
    \/ ClearChat /\ UNCHANGED << px, view, chart >>
    \/ (\E k \in InFlight, s \in Statuses : FetchResolve(k, s)) /\ UNCHANGED << px, view, chart >>
    \/ (\E k \in InFlight : FetchReject(k)) /\ UNCHANGED << px, view, chart >>
    \/ (\E k \in InFlight, d \in AgentData : JsonResolve(k, d)) /\ UNCHANGED << px, view, chart >>
    \/ (\E k \in InFlight : JsonReject(k)) /\ UNCHANGED << px, view, chart >>
    \/ Abort /\ UNCHANGED << px, view, chart >>
    \/ Render /\ UNCHANGED << px, view, chart >>

Spec == Init /\ [][Next]_vars

(***************************************************************************)
(* Claims about the Conversation Controller                                *)
(***************************************************************************)
SendEvents == {"keydown", "click", "suggestion"}

FailureEvents == {"serverError", "networkError", "typeError", "parseError"}

Last(s) == s[Len(s)]

IsPrefix(s, t) == Len(s) <= Len(t) /\ SubSeq(t, 1, Len(s)) = s

\* C1: single-flight.  At most one chat request is in flight in every state,
\* and a sendMessage call (Enter key, send button, suggestion) made while a
\* request is outstanding appends no message and issues no request.
C1_SingleFlight ==
    [][ /\ Cardinality(InFlight') <= 1
        /\ (event'.name \in SendEvents /\ InFlight # {})
              => (messages' = messages /\ requests' = requests /\ calls' = calls) ]_vars

\* a send of non-empty text was made, and ignored, while a request was in flight
C1_Witness ==
    /\ event.name \in SendEvents /\ ~event.accepted
    /\ InFlight # {}
    /\ Trim(input) # <<>>

\* C2: an accepted send appends the user message, sets loading and issues the
\* request in the same handler run; a request that completes without being
\* cancelled (2xx data, non-2xx, network or parse failure) appends exactly one
\* agent message and clears loading.
C2_SendThenOneReply ==
    [][ /\ (event'.name \in SendEvents /\ event'.accepted /\ event' # event)
             => /\ Len(requests') = Len(requests) + 1
                /\ Len(messages') = Len(messages) + 1
                /\ SubSeq(messages', 1, Len(messages)) = messages
                /\ Last(messages').role = "user"
                /\ Last(messages').content = StringContent(Last(requests').message)
                /\ Last(requests').message # <<>>
                /\ isLoading'
                /\ calls'[Len(calls')].pc = "fetch"
        /\ \A k \in 1..Len(calls) :
             (Pending(k) /\ calls'[k].pc = "done")
               => /\ Len(messages') = Len(messages) + 1
                  /\ SubSeq(messages', 1, Len(messages)) = messages
                  /\ Last(messages').role = "agent"
                  /\ ~isLoading'
        /\ \A k \in 1..Len(calls') :
             /\ calls'[k].pc = "done" => calls'[k].replies = 1
             /\ calls'[k].pc \in {"fetch", "json"} => calls'[k].replies = 0 ]_vars

\* a request answered with data and one answered with a failure have both completed
C2_Witness ==
    /\ Len(calls) >= 2
    /\ calls[1].pc = "done" /\ calls[2].pc = "done"
    /\ event.name = "data"
    /\ messages[Len(messages) - 2].content = StringContent(ErrorText)
    /\ ~isLoading

C4_ResetYieldsWelcome ==
    event.name = "clear" => (Len(messages) = 1 /\ messages[1] = WELCOME)

\* the conversation was reset after an earlier exchange, with a request in flight
C4_Witness ==
    /\ event.name = "clear"
    /\ InFlight # {}
    /\ nextUuid >= 3

\* C5: message identifiers are pairwise distinct, and every step other than a
\* reset keeps the previous list as a prefix of the new one.
C5_UniqueIdsAppendOnly ==
    [][ /\ \A i, j \in 1..Len(messages') :
             i # j => messages'[i].id # messages'[j].id
        /\ event'.name = "clear" \/ IsPrefix(messages, messages') ]_vars

\* two exchanges are in the list
C5_Witness == Len(messages) >= 5

(***************************************************************************)
(* JSON as the proxy handles it.  A JSON text is an object literal: its    *)
(* members in source order, each value a literal kept as written.  Parsing *)
(* gives a JavaScript object: one property per key, numbers as doubles.    *)
(* White space and string escapes are not modelled.                        *)
(***************************************************************************)
\* members of the JSON texts explored
MaxMembers == 2

NumLit(s) == [t |-> "num", lit |-> s]

StrLit(s) == [t |-> "str", lit |-> s]

NullLit == [t |-> "null", lit |-> "null"]

Literals ==
    { NumLit("1"), NumLit("1.0"), NumLit("9007199254740993"), NumLit("1e400"),
      StrLit("hi"), NullLit }

Keys == { "message", "response" }

Members == [key : Keys, val : Literals]

RECURSIVE MemberSeqs(_)
MemberSeqs(n) ==
    IF n = 0 THEN { <<>> }
    ELSE MemberSeqs(n - 1)
           \cup { Append(ms, m) : ms \in { q \in MemberSeqs(n - 1) : Len(q) = n - 1 },
                                  m \in Members }

JsonText(ms) == [valid |-> TRUE, members |-> ms]

\* a body that is not JSON
NotJson == [valid |-> FALSE, members |-> <<>>]

\* request bodies a client may post
RequestBodies == { JsonText(ms) : ms \in MemberSeqs(MaxMembers) } \cup { NotJson }

\* bodies the agent endpoint may answer with
UpstreamBodies ==
    { JsonText(<< [key |-> "response", val |-> v] >>) : v \in Literals }
        \cup { JsonText(<<>>), NotJson }

\* the double a number literal denotes, by its shortest decimal form
ToDouble(lit) ==
    CASE lit = "1.0" -> "1"
      [] lit = "9007199254740993" -> "9007199254740992"
      [] lit = "1e400" -> "Infinity"
      [] OTHER -> lit

\* JSON.parse of one literal
ParseLiteral(v) ==
    IF v.t = "num" THEN [t |-> "num", lit |-> ToDouble(v.lit)] ELSE v

\* JSON.stringify of one value: a non-finite number is written null
StringifyValue(v) ==
    IF v.t = "num" /\ v.lit \in {"Infinity", "-Infinity", "NaN"} THEN NullLit ELSE v

\* defining a property: a repeated key overwrites the value in place
RECURSIVE PutProperty(_, _, _)
PutProperty(obj, key, v) ==
    IF obj = <<>> THEN << [key |-> key, val |-> v] >>
    ELSE IF Head(obj).key = key THEN << [key |-> key, val |-> v] >> \o Tail(obj)
    ELSE << Head(obj) >> \o PutProperty(Tail(obj), key, v)

RECURSIVE ParseMembers(_, _)
ParseMembers(ms, obj) ==
    IF ms = <<>> THEN obj
    ELSE ParseMembers(Tail(ms), PutProperty(obj, Head(ms).key, ParseLiteral(Head(ms).val)))

\* req.json() / response.json() on a valid text
JsonParse(text) == ParseMembers(text.members, <<>>)

\* JSON.stringify(obj)
JsonStringify(obj) ==
    JsonText([i \in 1..Len(obj) |-> [key |-> obj[i].key, val |-> StringifyValue(obj[i].val)]])

(***************************************************************************)
(* Proxy Handler: POST of /api/chat                                        *)
(***************************************************************************)
ROUTE_AGENT_URL == "http://127.0.0.1:8001/chat"

FallbackMessage == "Cannot reach the agent backend. Make sure chatbot_agent.py is running on port 8001."

\* mutant: the fallback answers with the default status
Fallback_DefaultStatus ==
    [status |-> 200, body |-> JsonText(<< [key |-> "response", val |-> StrLit(FallbackMessage)] >>)]

\* the catch branch: NextResponse.json({ response: ... }, { status: 502 })
Fallback ==
    [status |-> 502, body |-> JsonText(<< [key |-> "response", val |-> StrLit(FallbackMessage)] >>)]

\* NextResponse.json({ error: `Agent returned ${status}` }, { status })
AgentError(status) ==
    [status |-> status,
     body |-> JsonText(<< [key |-> "error", val |-> StrLit("Agent returned " \o ToString(status))] >>)]

\* NextResponse.json(data)
Relay(data) == [status |-> 200, body |-> JsonStringify(data)]

NoResponse == [status |-> 0, body |-> NotJson]

PxStart ==
    [pc |-> "idle", req |-> NotJson, upstream |-> <<>>, up |-> "none",
     upStatus |-> 0, upBody |-> NotJson, res |-> NoResponse]

\* POST(req) up to `await fetch(AGENT_URL, ...)`: req.json() throws on a body
\* that is not JSON
PxPost(body) ==
    /\ px.pc = "idle"
    /\ IF ~body.valid
       THEN px' = [px EXCEPT !.pc = "done", !.req = body, !.res = Fallback]
       ELSE px' = [px EXCEPT !.pc = "fetch", !.req = body,
                             !.upstream = Append(@, [url |-> ROUTE_AGENT_URL,
                                                     method |-> "POST",
                                                     body |-> JsonStringify(JsonParse(body))])]

\* the upstream fetch rejects: the agent endpoint is unreachable
PxFetchReject ==
    /\ px.pc = "fetch"
    /\ px' = [px EXCEPT !.pc = "done", !.up = "unreachable", !.res = Fallback]

\* the upstream fetch resolves; `if (!response.ok)` answers with the agent's status
PxFetchResolve(status, body) ==
    /\ px.pc = "fetch"
    /\ IF ~ResOk(status)
       THEN px' = [px EXCEPT !.pc = "done", !.up = "responded", !.upStatus = status,
                             !.upBody = body, !.res = AgentError(status)]
       ELSE px' = [px EXCEPT !.pc = "json", !.up = "responded", !.upStatus = status,
                             !.upBody = body]

\* `await response.json()` and the relay of its result
PxJson ==
    /\ px.pc = "json"
    /\ IF ~px.upBody.valid
       THEN px' = [px EXCEPT !.pc = "done", !.res = Fallback]
       ELSE px' = [px EXCEPT !.pc = "done", !.res = Relay(JsonParse(px.upBody))]

ProxyInit ==
    /\ px = PxStart
    /\ chart = [pc |-> "off"]
    /\ view = [pc |-> "off"]
    /\ messages = << WELCOME >>
    /\ input = <<>>
    /\ isLoading = FALSE
    /\ showWelcome = TRUE
    /\ renderedLoading = FALSE
    /\ abortRef = 0
    /\ calls = <<>>
    /\ requests = <<>>
    /\ nextUuid = 0
    /\ event = Ev("init", TRUE)

ProxyNext ==
    \/ (\E b \in RequestBodies : PxPost(b)) /\ UNCHANGED << ctlVars, view, chart >>
    \/ PxFetchReject /\ UNCHANGED << ctlVars, view, chart >>
    \/ (\E s \in Statuses, b \in UpstreamBodies : PxFetchResolve(s, b))
          /\ UNCHANGED << ctlVars, view, chart >>
    \/ PxJson /\ UNCHANGED << ctlVars, view, chart >>

ProxySpec == ProxyInit /\ [][ProxyNext]_vars

(***************************************************************************)
(* Claims about the Proxy Handler                                          *)
(***************************************************************************)
\* the number a literal stands for, in canonical decimal form
ExactValue(v) ==
    IF v.t = "num" /\ v.lit = "1.0" THEN NumLit("1") ELSE v

\* the JSON value of a text: the value of each key, the last member of a
\* repeated key deciding
JsonValueOf(text) ==
    { [key |-> text.members[i].key, val |-> ExactValue(text.members[i].val)] :
        i \in { j \in 1..Len(text.members) :
                  \A l \in (j + 1)..Len(text.members) :
                      text.members[l].key # text.members[j].key } }

SameJson(a, b) == a.valid = b.valid /\ JsonValueOf(a) = JsonValueOf(b)

\* C6: for a valid JSON request body the handler issues exactly one upstream
\* POST whose body is that JSON value, and a 2xx JSON answer of the agent is
\* returned with its value unchanged.
C6_PassThrough ==
    /\ (px.pc \in {"fetch", "json", "done"} /\ px.req.valid)
          => /\ Len(px.upstream) = 1
             /\ px.upstream[1].method = "POST"
             /\ SameJson(px.upstream[1].body, px.req)
    /\ (px.pc = "done" /\ px.up = "responded" /\ ResOk(px.upStatus) /\ px.upBody.valid)
          => SameJson(px.res.body, px.upBody)

\* C7: when the upstream fetch fails, or its 2xx body is not JSON, the handler
\* answers 502 with the fixed fallback body, whatever the request was.
C7_FallbackOnFailure ==
    (/\ px.pc = "done"
     /\ \/ px.up = "unreachable"
        \/ (px.up = "responded" /\ ResOk(px.upStatus) /\ ~px.upBody.valid))
       => /\ px.res.status = 502
          /\ px.res.body = JsonText(<< [key |-> "response", val |-> StrLit(FallbackMessage)] >>)

\* the agent was unreachable for a request of two members
C7_Witness ==
    /\ px.pc = "done" /\ px.up = "unreachable"
    /\ Len(px.req.members) = 2
    /\ px.res.status = 502

(***************************************************************************)
(* Rendering decision: ChatMessage, isVegaSpec, formatText                 *)
(***************************************************************************)
\* String.prototype.toLowerCase on the letters the model uses
LowerChar(c) ==
    CASE c = "E" -> "e"
      [] c = "R" -> "r"
      [] c = "O" -> "o"
      [] c = "X" -> "x"
      [] OTHER -> c

ToLowerCase(s) == [i \in 1..Len(s) |-> LowerChar(s[i])]

StartsWith(s, p) == Len(s) >= Len(p) /\ SubSeq(s, 1, Len(p)) = p

EndsWith(s, p) == Len(s) >= Len(p) /\ SubSeq(s, Len(s) - Len(p) + 1, Len(s)) = p

\* mutant: only the "mark" key is looked for
isVegaSpec_MarkOnly(content) == content.type = "object" /\ "mark" \in content.keys

\* typeof content === "object" && content !== null && ("mark" in content || "$schema" in content)
isVegaSpec(content) ==
    /\ content.type \in {"object", "array"}
    /\ ("mark" \in content.keys \/ "$schema" \in content.keys)

\* String.prototype.split("\n")
RECURSIVE SplitLines(_, _)
SplitLines(s, cur) ==
    IF s = <<>> THEN << cur >>
    ELSE IF Head(s) = "\n" THEN << cur >> \o SplitLines(Tail(s), <<>>)
    ELSE SplitLines(Tail(s), Append(cur, Head(s)))

\* length of the run of characters other than "*" that starts at position i
RECURSIVE RunLen(_, _)
RunLen(s, i) ==
    IF i > Len(s) \/ s[i] = "*" THEN 0 ELSE 1 + RunLen(s, i + 1)

\* length of the match of /\*\*[^*]+\*\*/ at position i, 0 when there is none
MatchLen(s, i) ==
    LET n == RunLen(s, i + 2) IN
    IF /\ i + 1 <= Len(s) /\ s[i] = "*" /\ s[i + 1] = "*"
       /\ n >= 1
       /\ i + n + 3 <= Len(s) /\ s[i + n + 2] = "*" /\ s[i + n + 3] = "*"
    THEN n + 4 ELSE 0

\* position of the leftmost match at or after i, 0 when there is none
RECURSIVE FindMatch(_, _)
FindMatch(s, i) ==
    IF i > Len(s) THEN 0
    ELSE IF MatchLen(s, i) > 0 THEN i ELSE FindMatch(s, i + 1)

\* line.split(/(\*\*[^*]+\*\*)/g): the text between matches and, the group
\* being captured, the matches themselves
RECURSIVE SplitBold(_)
SplitBold(line) ==
    LET i == FindMatch(line, 1) IN
    IF i = 0 THEN << line >>
    ELSE << SubSeq(line, 1, i - 1), SubSeq(line, i, i + MatchLen(line, i) - 1) >>
           \o SplitBold(SubSeq(line, i + MatchLen(line, i), Len(line)))

Stars == << "*", "*" >>

\* one part of a line: <strong>{part.slice(2, -2)}</strong> or the part itself
RenderPart(part) ==
    IF StartsWith(part, Stars) /\ EndsWith(part, Stars)
    THEN [strong |-> TRUE, text |-> SubSeq(part, 3, Len(part) - 2)]
    ELSE [strong |-> FALSE, text |-> part]

\* formatText(text): one span per line, a <br /> after each line but the last
formatText(text) ==
    LET lines == SplitLines(text, <<>>) IN
    [i \in 1..Len(lines) |->
        [parts |-> [j \in 1..Len(SplitBold(lines[i])) |-> RenderPart(SplitBold(lines[i])[j])],
         br    |-> i < Len(lines)]]

\* ChatMessage: the bubble chosen for a message and what fills it
ChatMessage(message) ==
    LET isUser  == message.role = "user"
        isChart == ~isUser /\ isVegaSpec(message.content)
        isError == /\ ~isUser
                   /\ message.content.type = "string"
                   /\ StartsWith(ToLowerCase(message.content.chars), << "e", "r", "r", "o", "r" >>)
    IN  IF isUser
        THEN [bubble |-> "user", body |-> "plain",
              lines |-> IF message.content.type = "string"
                        THEN << [parts |-> << [strong |-> FALSE, text |-> message.content.chars] >>,
                                 br |-> FALSE] >>
                        ELSE <<>>]
        ELSE IF isChart
        THEN [bubble |-> "chart", body |-> "VegaChart", lines |-> <<>>]
        ELSE [bubble |-> IF isError THEN "error" ELSE "normal",
              body   |-> IF message.content.type = "string" THEN "formatText" ELSE "JSON.stringify",
              lines  |-> IF message.content.type = "string"
                         THEN formatText(message.content.chars) ELSE <<>>]

RECURSIVE SeqsOver(_, _)
SeqsOver(alphabet, n) ==
    IF n = 0 THEN { <<>> }
    ELSE SeqsOver(alphabet, n - 1)
           \cup { Append(s, c) : s \in { q \in SeqsOver(alphabet, n - 1) : Len(q) = n - 1 },
                                 c \in alphabet }

\* how a rendered text may begin
TextPrefixes ==
    { <<>>,
      << "e", "r", "r", "o", "r" >>,
      << "E", "r", "r", "o", "r" >>,
      << "E", "R", "R", "O", "R" >>,
      << "e", "r", "r", "0", "r" >>,
      << "x", "e", "r", "r", "o", "r" >> }

\* the texts rendered: a prefix followed by up to MaxLen characters
Texts == { p \o s : p \in TextPrefixes, s \in SeqsOver({ "*", "a", "\n" }, MaxLen) }

\* the contents an agent message may carry
Contents ==
    { StringContent(t) : t \in Texts }
        \cup { ObjectContent(ks) : ks \in SUBSET { "mark", "$schema", "data" } }
        \cup { [type |-> "array", chars |-> <<>>, keys |-> {}] }
        \cup { OtherContent(t) : t \in { "undefined", "null", "number", "boolean" } }

ViewMessages ==
    { [id |-> RandomUUID(1), role |-> "agent", content |-> c] : c \in Contents }
        \cup { [id |-> RandomUUID(1), role |-> "user", content |-> StringContent(t)] :
                 t \in { u \in Texts : Trim(u) = u /\ u # <<>> } }

NoView == [bubble |-> "none", body |-> "none", lines |-> <<>>]

\* React renders <ChatMessage message={m} />
Display ==
    /\ view.pc = "mounted"
    /\ view' = [view EXCEPT !.pc = "rendered", !.out = ChatMessage(view.message)]

ViewInit ==
    /\ view \in { [pc |-> "mounted", message |-> m, out |-> NoView] : m \in ViewMessages }
    /\ px = [pc |-> "off"]
    /\ chart = [pc |-> "off"]
    /\ messages = << WELCOME >>
    /\ input = <<>>
    /\ isLoading = FALSE
    /\ showWelcome = TRUE
    /\ renderedLoading = FALSE
    /\ abortRef = 0
    /\ calls = <<>>
    /\ requests = <<>>
    /\ nextUuid = 0
    /\ event = Ev("init", TRUE)

ViewNext == Display /\ UNCHANGED << ctlVars, px, chart >>

ViewSpec == ViewInit /\ [][ViewNext]_vars

(***************************************************************************)
(* Claims about the rendering decision                                     *)
(***************************************************************************)
Rendered == view.pc = "rendered"

\* the content is an object with a "mark" or "$schema" key
HasChartKey(c) == c.type = "object" /\ c.keys \cap { "mark", "$schema" } # {}

\* the content is a string whose first five letters spell "error" in any case
BeginsWithError(c) ==
    /\ c.type = "string"
    /\ Len(c.chars) >= 5
    /\ c.chars[1] \in { "e", "E" }
    /\ c.chars[2] \in { "r", "R" }
    /\ c.chars[3] \in { "r", "R" }
    /\ c.chars[4] \in { "o", "O" }
    /\ c.chars[5] \in { "r", "R" }

\* C8 as stated: an agent message renders as a chart when its content has a
\* chart key, else in the error bubble when it is a string beginning with
\* "error", else, whatever the content, as formatted text in the normal bubble.
C8_ThreeWayDispatch ==
    (Rendered /\ view.message.role = "agent")
       => IF HasChartKey(view.message.content)
          THEN view.out.bubble = "chart" /\ view.out.body = "VegaChart"
          ELSE IF BeginsWithError(view.message.content)
          THEN view.out.bubble = "error" /\ view.out.body = "formatText"
          ELSE view.out.bubble = "normal" /\ view.out.body = "formatText"

\* C8 amended: the choice of bubble is the three-way dispatch, and the normal
\* bubble holds formatted text for a string and the JSON serialization for
\* any other content.
C8_DispatchByContentType ==
    (Rendered /\ view.message.role = "agent")
       => IF HasChartKey(view.message.content)
          THEN view.out.bubble = "chart" /\ view.out.body = "VegaChart"
          ELSE IF BeginsWithError(view.message.content)
          THEN view.out.bubble = "error" /\ view.out.body = "formatText"
          ELSE /\ view.out.bubble = "normal"
               /\ view.out.body = IF view.message.content.type = "string"
                                  THEN "formatText" ELSE "JSON.stringify"

\* an object without a chart key was rendered
C8_Witness ==
    /\ Rendered /\ view.message.role = "agent"
    /\ view.message.content = ObjectContent({ "data" })
    /\ view.out.bubble = "normal" /\ view.out.body = "JSON.stringify"

RECURSIVE RestoreParts(_)
RestoreParts(parts) ==
    IF parts = <<>> THEN <<>>
    ELSE (IF Head(parts).strong THEN Stars \o Head(parts).text \o Stars ELSE Head(parts).text)
           \o RestoreParts(Tail(parts))

RECURSIVE RestoreLines(_)
RestoreLines(lines) ==
    IF lines = <<>> THEN <<>>
    ELSE RestoreParts(Head(lines).parts)
           \o (IF Head(lines).br THEN << "\n" >> ELSE <<>>)
           \o RestoreLines(Tail(lines))

NewlineCount(s) == Cardinality({ i \in 1..Len(s) : s[i] = "\n" })

\* C9: formatText renders one line per newline-separated segment, a break
\* after each line but the last; an emphasized span holds the text of a
\* **text** substring, everything else is verbatim, so that putting the
\* markers back around the emphasized spans gives the original text.
C9_FormatTextRoundTrip ==
    (Rendered /\ view.out.body = "formatText")
       => /\ Len(view.out.lines) = NewlineCount(view.message.content.chars) + 1
          /\ \A i \in 1..Len(view.out.lines) :
                 view.out.lines[i].br = (i < Len(view.out.lines))
          /\ \A i \in 1..Len(view.out.lines) :
               \A j \in 1..Len(view.out.lines[i].parts) :
                 view.out.lines[i].parts[j].strong => view.out.lines[i].parts[j].text # <<>>
          /\ RestoreLines(view.out.lines) = view.message.content.chars

(***************************************************************************)
(* Claim about the data flow                                               *)
(***************************************************************************)
\* C10: every chat request of the controller is sent to the proxy route
\* POST /api/chat, never to the agent endpoint itself.
C10_RequestsGoThroughProxy ==
    \A i \in 1..Len(requests) :
        requests[i].method = "POST" /\ requests[i].url = PROXY_ROUTE

(***************************************************************************)
(* VegaChart: the effect that embeds the chart and its cleanup             *)
(***************************************************************************)
\* effect runs (mount and spec changes) explored per behaviour
MaxEffects == 3

\* one run of the effect: `let cleanup` is set once pc is "ready"
NewEffect ==
    [pc |-> "import", cleaned |-> FALSE, created |-> FALSE, finalized |-> FALSE,
     errorShown |-> FALSE]

\* the effect's cleanup function `() => cleanup?.()`: result.finalize() is
\* called only when renderChart has assigned cleanup by then
RunCleanup(e) ==
    [e EXCEPT !.cleaned = TRUE, !.finalized = @ \/ (e.pc = "ready")]

\* the catch branch of renderChart: the message goes into the container when
\* the ref still holds it
CatchRender(e) ==
    [e EXCEPT !.pc = "failed", !.errorShown = chart.container]

Current == Len(chart.effects)

\* `await import("vega-embed")` resolves and vegaEmbed(containerRef.current!, ...)
\* is called; with the ref cleared by an unmount the call fails
ImportResolve(i) ==
    /\ chart.effects[i].pc = "import"
    /\ chart' = [chart EXCEPT !.effects[i] =
                    IF chart.container THEN [@ EXCEPT !.pc = "embed"] ELSE CatchRender(@)]

\* `await import("vega-embed")` rejects
ImportReject(i) ==
    /\ chart.effects[i].pc = "import"
    /\ chart' = [chart EXCEPT !.effects[i] = CatchRender(@)]

\* `await vegaEmbed(...)` resolves with a chart instance: cleanup is assigned
EmbedResolve(i) ==
    /\ chart.effects[i].pc = "embed"
    /\ chart' = [chart EXCEPT !.effects[i] = [@ EXCEPT !.pc = "ready", !.created = TRUE]]

\* `await vegaEmbed(...)` rejects: no chart instance
EmbedReject(i) ==
    /\ chart.effects[i].pc = "embed"
    /\ chart' = [chart EXCEPT !.effects[i] = CatchRender(@)]

\* the spec prop changes: the cleanup of the current effect runs, then the
\* effect runs again (the container is mounted, so line 13 does not return)
SpecChange ==
    /\ chart.mounted
    /\ Len(chart.effects) < MaxEffects
    /\ chart' = [chart EXCEPT !.effects =
                    Append([@ EXCEPT ![Current] = RunCleanup(@)], NewEffect)]

\* the component unmounts: the ref is cleared and the cleanup of the current
\* effect runs
Unmount ==
    /\ chart.mounted
    /\ chart' = [chart EXCEPT !.mounted = FALSE, !.container = FALSE,
                              !.effects[Current] = RunCleanup(@)]

ChartInit ==
    /\ chart = [pc |-> "on", mounted |-> TRUE, container |-> TRUE, effects |-> << NewEffect >>]
    /\ px = [pc |-> "off"]
    /\ view = [pc |-> "off"]
    /\ messages = << WELCOME >>
    /\ input = <<>>
    /\ isLoading = FALSE
    /\ showWelcome = TRUE
    /\ renderedLoading = FALSE
    /\ abortRef = 0
    /\ calls = <<>>
    /\ requests = <<>>
    /\ nextUuid = 0
    /\ event = Ev("init", TRUE)

ChartNext ==
    \/ (\E i \in 1..Len(chart.effects) : ImportResolve(i)) /\ UNCHANGED << ctlVars, px, view >>
    \/ (\E i \in 1..Len(chart.effects) : ImportReject(i)) /\ UNCHANGED << ctlVars, px, view >>
    \/ (\E i \in 1..Len(chart.effects) : EmbedResolve(i)) /\ UNCHANGED << ctlVars, px, view >>
    \/ (\E i \in 1..Len(chart.effects) : EmbedReject(i)) /\ UNCHANGED << ctlVars, px, view >>
    \/ SpecChange /\ UNCHANGED << ctlVars, px, view >>
    \/ Unmount /\ UNCHANGED << ctlVars, px, view >>

ChartSpec == ChartInit /\ [][ChartNext]_vars

\* C11: every chart instance that vegaEmbed created is finalized once the
\* cleanup of its effect has run (chart replaced or component unmounted).
C11_CreatedChartsAreFinalized ==
    \A i \in 1..Len(chart.effects) :
        (chart.effects[i].created /\ chart.effects[i].cleaned) => chart.effects[i].finalized

(***************************************************************************)
(* Claim about replies and resets                                          *)
(***************************************************************************)
ReplyEvents == FailureEvents \cup { "data" }

\* C12: every agent message after the welcome message directly follows a
\* user message, and the reply (data or error) to request k is appended
\* right after the user message of request k; a reply to a request issued
\* before a reset is not appended to the list the reset created.
C12_ReplyFollowsItsRequest ==
    [][ /\ \A i \in 2..Len(messages') :
             messages'[i].role = "agent" => messages'[i - 1].role = "user"
        /\ (event'.name \in ReplyEvents /\ event' # event)
             => /\ Last(messages).role = "user"
                /\ Last(messages).content = StringContent(requests[event'.k].message) ]_vars

====
